---- MODULE Spec2Model ----
(***************************************************************************)
(* Model of the cost/accuracy Pareto frontier engine of                    *)
(* docetl/mcts/ParetoFrontier.py.                                           *)
(*                                                                         *)
(* Accuracies are fixed-point numbers in units of 1/6000 (3600 stands for   *)
(* 0.6, 300 for 0.05), so that the sums, differences and means the engine   *)
(* computes on the modelled inputs are exact.  Costs are integers; the      *)
(* failure cost sentinel is -1 as in the source.  A node is identified by   *)
(* its id; ids are handed out in creation order from 0.                     *)
(***************************************************************************)
EXTENDS Integers, Sequences, FiniteSets, TLC

\* ------------------------------------------------------------------ bounds
\* number of nodes the driver creates and ingests in one run
MaxPlans == 3
\* length of the reference frontier handed to project_to_frontier on its own
MaxRefLen == 2
\* number of frontier members the estimator compares against on its own
MaxMembers == 2
\* visit count and number of children of the node handed to is_fully_explored
\* and calculate_ucb1
MaxVisits == 9
MaxChildren == 5
\* iteration counts and clock readings handed to should_continue_search
MaxIterations == 3
MaxClock == 4
\* documents handed to a ReadNextDocTool, and the largest count asked of
\* read_next_docs
MaxDocs == 3
MaxCount == 3
\* largest value of MAX_DIRECTIVE_INSTANTIATION_ATTEMPTS tried
MaxAttempts == 4
\* number of messages in a history handed to trim_history
MaxHistory == 3
\* number of messages handed to truncate_message_content
MaxMessages == 4

\* ------------------------------------------------------- program constants
\* node.cost == -1 marks a failed plan
FAIL_COST == -1

\* float("-inf"): an integer below every finite accuracy; it is only ever
\* compared, never used in arithmetic
NegInf == -1000000

\* MAX_CONTEXT_TOKENS = 270_000
MAX_CONTEXT_TOKENS == 270000

\* max_tokens - system_tokens - latest_tokens - 1000: the buffer for the response
RESPONSE_BUFFER == 1000

\* the value of node.latest_action when no action produced the node
NoAction == "None"

\* ------------------------------------------------------------ input domains
Costs == {5, 10, 20}
\* 0.5, 0.6, 0.9
Accuracies == {3000, 3600, 5400}
\* keys of the action_rewards dictionary handed to the constructor
SinkKeys == {"a1"}
\* node.latest_action: none, or an action of the sink
Actions == {NoAction, "a1"}
NodeIds == 0 .. (MaxPlans - 1)
\* what accuracy_comparator.compare does for one frontier member: <<TRUE, score>>
\* when it returns the score, <<FALSE, 0>> when it raises
Scores == {-3, -1, 0, 1, 3}
CompareRaises == <<FALSE, 0>>
Outcomes == ({TRUE} \X Scores) \cup {CompareRaises}
\* the inputs of the runs that mix both entry points; "a2" is an action the
\* sink has no key for
MixActions == {"a1", "a2"}
MixCosts == {5, 10}
MixAccuracies == {3000, 5400}
MixOutcomes == {<<TRUE, -3>>, <<TRUE, 3>>, CompareRaises}
\* arguments of estimate_accuracy_via_comparisons when it is exercised on its
\* own: the known accuracies of the frontier members (0.1, 0.5, 0.9)
EstAccuracies == {600, 3000, 5400}
\* arguments of project_to_frontier when it is exercised on its own:
\* reference points <<acc, cost>> (0.6, 0.8 at costs 10, 30, 50), a plan's
\* accuracy and cost
RefPoints == {3600, 4800} \X {10, 30, 50}
RefFrontiers == UNION {[1 .. n -> RefPoints] : n \in 0 .. MaxRefLen}
ProbeAccuracies == {3000, 3600, 5400}
ProbeCosts == {5, 10, 30, 100}

\* arguments of is_fully_explored: max_children_multiplier as the fraction
\* <<p, d>> = p / d (0, 0.5, 1.0 the default, 1.5, 2.0)
Multipliers == {<<0, 1>>, <<1, 2>>, <<1, 1>>, <<3, 2>>, <<2, 1>>}
\* arguments of should_continue_search: max_time is <<>> for None and <<t>> for
\* a budget of t seconds; the search started at second 1 of the clock, which
\* time.time() reads anywhere in 0 .. MaxClock
StartTimes == {1}
MaxTimes == {<<>>, <<0>>, <<2>>}
\* arguments of calculate_ucb1: node.value, parent_visits, exploration_constant
NodeValues == {0, 1, 2}
ParentVisits == 0 .. 3
ExplorationConstants == {0, 1, 2}

\* the documents a ReadNextDocTool can be handed
Docs == {"d1", "d2"}

\* what the model's answer to a schema request is like: whether it parses into
\* the response schema, and whether validation_func accepts it
Responses == [parses : BOOLEAN, validates : BOOLEAN]

\* messages of a conversation: the role, and len(content) in characters (4,
\* 540000 and 1080004 characters count as 1, 135000 and 270001 tokens)
Roles == {"system", "user", "assistant"}
ContentLengths == {4, 540000, 1080004}
\* the histories of n messages; pos is the place of a message in the history
\* handed in, by which it is told from its equals
Histories(n) ==
    {[i \in 1 .. n |-> [role |-> r[i], chars |-> l[i], pos |-> i]] :
        r \in [1 .. n -> Roles], l \in [1 .. n -> ContentLengths]}

\* messages handed to truncate_message_content: tokens is what
\* estimate_token_count returns for the content of the message
TokenCounts == {100, 2000}
TokenBudgets == {2200, 5000}
TokenMessages(n) ==
    {[i \in 1 .. n |-> [role |-> r[i], tokens |-> l[i], pos |-> i]] :
        r \in [1 .. n -> Roles], l \in [1 .. n -> TokenCounts]}

VARIABLES
    created,          \* number of nodes created so far (the next node id)
    cost,             \* node.cost, by node id
    latest_action,    \* node.latest_action, by node id
    on_frontier,      \* node.on_frontier, by node id
    plans,            \* self.plans
    plans_accuracy,   \* self.plans_accuracy
    plans_cost,       \* self.plans_cost
    frontier_plans,   \* self.frontier_plans
    frontier_data,    \* self.frontier_data: <<acc, cost>> of the frontier nodes
    action_rewards,   \* self.action_rewards (shared with the driver)
    node_distances,   \* self.node_distances
    ret,              \* the last call: entry point, node, returned map and flag,
                      \* whether it ended in an exception instead, and what
                      \* became of its diagnostic plot
    pre,              \* the engine state as it was when the last call began
    proj,             \* a call of project_to_frontier: its arguments and result
    probe,            \* a call of another function on its own: its name, its
                      \* arguments and its result
    ledger,           \* what the driver has been handed so far, when it keeps
                      \* count: per plan the sum of the values emitted for it,
                      \* and the plans that have been on the frontier
    calls             \* add_plan_f1 called from several threads: whether the
                      \* driver serialises the calls, and each thread's
                      \* position in its call and the locals it holds

vars == <<created, cost, latest_action, on_frontier, plans, plans_accuracy,
          plans_cost, frontier_plans, frontier_data, action_rewards,
          node_distances, ret, pre, proj, probe, ledger, calls>>

\* --------------------------------------------------------------- dictionaries
EmptyMap == <<>>

MapSet(f, k, v) == [x \in (DOMAIN f) \cup {k} |-> IF x = k THEN v ELSE f[x]]

\* dict.get(k, default)
MapGet(f, k, default) == IF k \in DOMAIN f THEN f[k] ELSE default

SeqSet(s) == {s[i] : i \in 1 .. Len(s)}

Abs(x) == IF x < 0 THEN -x ELSE x

\* the sentinel test with the wrong sentinel (0 for -1)
IsFailed_zero(c) == c = 0

\* node.cost == -1
IsFailed(c) == c = FAIL_COST

\* a > b on floats that may be -inf
AccGT(a, b) == a > b

\* ------------------------------------------------------- project_to_frontier
\* sorted(frontier_data, key=lambda x: x[1]): stable, ascending by cost
RECURSIVE InsertByCost(_, _)
InsertByCost(sorted, p) ==
    IF sorted = <<>> THEN <<p>>
    ELSE IF sorted[Len(sorted)][2] <= p[2] THEN Append(sorted, p)
    ELSE Append(InsertByCost(SubSeq(sorted, 1, Len(sorted) - 1), p),
                sorted[Len(sorted)])

RECURSIVE SortedFrontier(_)
SortedFrontier(fd) ==
    IF fd = <<>> THEN <<>>
    ELSE InsertByCost(SortedFrontier(SubSeq(fd, 1, Len(fd) - 1)), fd[Len(fd)])

\* the loop with > for >=: a plan at exactly a reference point's cost falls
\* back to the previous step
RECURSIVE StepScan_strict(_, _, _)
StepScan_strict(frontier_sorted, node_cost, step) ==
    IF frontier_sorted = <<>> THEN step
    ELSE IF node_cost > Head(frontier_sorted)[2]
         THEN StepScan_strict(Tail(frontier_sorted), node_cost,
                              Head(frontier_sorted)[1])
         ELSE step

\* the for loop over frontier_sorted, with its break
RECURSIVE StepScan(_, _, _)
StepScan(frontier_sorted, node_cost, step) ==
    IF frontier_sorted = <<>> THEN step
    ELSE IF node_cost >= Head(frontier_sorted)[2]
         THEN StepScan(Tail(frontier_sorted), node_cost, Head(frontier_sorted)[1])
         ELSE step

\* step_function_accuracy as computed for a non-empty frontier_data
StepFunctionAccuracy(node_cost, fd) == StepScan(SortedFrontier(fd), node_cost, 0)

project_to_frontier(node_acc, node_cost, fd) ==
    IF fd = <<>> THEN node_acc
    ELSE Abs(node_acc - StepFunctionAccuracy(node_cost, fd))

\* ------------------------------------------ estimate_accuracy_via_comparisons
\* an adjustment of 1/60 per point of score
ScoreToAdjustment_linear(score) == 100 * score

\* score_to_adjustment.get(int(comparison_score), 0.0): -0.15 ... +0.15
ScoreToAdjustment(score) ==
    CASE score = -3 -> -900
      [] score = -1 -> -300
      [] score = 0 -> 0
      [] score = 1 -> 300
      [] score = 3 -> 900
      [] OTHER -> 0

\* the loop with a failed comparison counted as a score of 0
RECURSIVE AccuracyEstimates_failzero(_, _, _)
AccuracyEstimates_failzero(comparison_nodes, outcomes, pa) ==
    IF comparison_nodes = <<>> THEN <<>>
    ELSE <<pa[Head(comparison_nodes)]
              + (IF Head(outcomes)[1] THEN ScoreToAdjustment(Head(outcomes)[2]) ELSE 0)>>
            \o AccuracyEstimates_failzero(Tail(comparison_nodes), Tail(outcomes), pa)

\* the loop over comparison_nodes: accuracy_estimates, one entry per comparison
\* that returned; outcomes[i] is what compare does for the i-th member
RECURSIVE AccuracyEstimates(_, _, _)
AccuracyEstimates(comparison_nodes, outcomes, pa) ==
    IF comparison_nodes = <<>> THEN <<>>
    ELSE IF Head(outcomes)[1]
         THEN <<pa[Head(comparison_nodes)] + ScoreToAdjustment(Head(outcomes)[2])>>
                 \o AccuracyEstimates(Tail(comparison_nodes), Tail(outcomes), pa)
         ELSE AccuracyEstimates(Tail(comparison_nodes), Tail(outcomes), pa)

RECURSIVE SumSeq(_)
SumSeq(s) == IF s = <<>> THEN 0 ELSE Head(s) + SumSeq(Tail(s))

Min2(a, b) == IF a < b THEN a ELSE b
Max2(a, b) == IF a > b THEN a ELSE b

\* the mean returned as it is
Clamp_none(final_accuracy) == final_accuracy

\* max(0.1, min(0.95, final_accuracy))
Clamp(final_accuracy) == Max2(600, Min2(5700, final_accuracy))

\* final_accuracy = sum(accuracy_estimates) / len(accuracy_estimates): a float
\* division in the source; here it is the quotient in units of 1/6000, exact
\* whenever the sum is a multiple of the count (every modelled accuracy and
\* adjustment is a multiple of 6, so it is for up to three estimates).
FinalAccuracy(accuracy_estimates) ==
    SumSeq(accuracy_estimates) \div Len(accuracy_estimates)

\* the estimator with the lower clamp bound as its answer when there is no
\* frontier member to compare against
estimate_accuracy_via_comparisons_floor(comparison_nodes, outcomes, pa) ==
    IF comparison_nodes = <<>> THEN 600
    ELSE LET accuracy_estimates == AccuracyEstimates(comparison_nodes, outcomes, pa) IN
         IF accuracy_estimates = <<>> THEN 3000
         ELSE Clamp(FinalAccuracy(accuracy_estimates))

estimate_accuracy_via_comparisons(comparison_nodes, outcomes, pa) ==
    IF comparison_nodes = <<>> THEN 3000
    ELSE LET accuracy_estimates == AccuracyEstimates(comparison_nodes, outcomes, pa) IN
         IF accuracy_estimates = <<>> THEN 3000
         ELSE Clamp(FinalAccuracy(accuracy_estimates))

\* ---------------------------------------------------- _update_action_rewards
\* a sink that opens an entry for an action it has no key for
UpdateActionRewards_setdefault(ar, action, reward) ==
    IF action = NoAction \/ DOMAIN ar = {} THEN ar
    ELSE MapSet(ar, action, MapGet(ar, action, 0) + reward)

UpdateActionRewards(ar, action, reward) ==
    IF action = NoAction \/ DOMAIN ar = {} THEN ar
    ELSE IF action \in DOMAIN ar
         THEN [ar EXCEPT ![action] = @ + reward]
         ELSE ar

\* -------------------------------------------------- update_pareto_frontier_HV
\* valid_nodes.sort(key=lambda node: self.plans_cost[node]): stable
RECURSIVE InsertNode(_, _, _)
InsertNode(sorted, n, pc) ==
    IF sorted = <<>> THEN <<n>>
    ELSE IF pc[sorted[Len(sorted)]] <= pc[n] THEN Append(sorted, n)
    ELSE Append(InsertNode(SubSeq(sorted, 1, Len(sorted) - 1), n, pc),
                sorted[Len(sorted)])

\* the valid plans scanned in ingestion order, not in cost order
SortNodes_unsorted(nodes, pc) == nodes

RECURSIVE SortNodes(_, _)
SortNodes(nodes, pc) ==
    IF nodes = <<>> THEN <<>>
    ELSE InsertNode(SortNodes(SubSeq(nodes, 1, Len(nodes) - 1), pc),
                    nodes[Len(nodes)], pc)

\* [node for node in self.plans if node.cost != -1]
ValidNodes(ps, c) == SelectSeq(ps, LAMBDA n : ~IsFailed(c[n]))

\* archive_frontier_data: [acc, real_cost] of the old frontier nodes that are valid
RECURSIVE ArchiveData(_, _, _, _)
ArchiveData(old, valid, pa, pc) ==
    IF old = <<>> THEN <<>>
    ELSE IF Head(old) \in valid
         THEN <<<<MapGet(pa, Head(old), NegInf), pc[Head(old)]>>>>
                 \o ArchiveData(Tail(old), valid, pa, pc)
         ELSE ArchiveData(Tail(old), valid, pa, pc)

\* the admission test with >= for >: a later plan of equal accuracy is admitted
Admits_ge(accuracy, max_accuracy_so_far) == accuracy >= max_accuracy_so_far

\* admission test of the linear scan
Admits(accuracy, max_accuracy_so_far) == AccGT(accuracy, max_accuracy_so_far)

\* the scan that compares a plan with the plan before it, not with the best
\* accuracy so far
RECURSIVE FrontierScan_previous(_, _, _)
FrontierScan_previous(nodes, pa, max_accuracy_so_far) ==
    IF nodes = <<>> THEN <<>>
    ELSE LET accuracy == MapGet(pa, Head(nodes), 0) IN
         IF Admits(accuracy, max_accuracy_so_far)
         THEN <<Head(nodes)>> \o FrontierScan_previous(Tail(nodes), pa, accuracy)
         ELSE FrontierScan_previous(Tail(nodes), pa, accuracy)

\* the scan over valid_nodes that keeps max_accuracy_so_far
RECURSIVE FrontierScan(_, _, _)
FrontierScan(nodes, pa, max_accuracy_so_far) ==
    IF nodes = <<>> THEN <<>>
    ELSE LET accuracy == MapGet(pa, Head(nodes), 0) IN
         IF Admits(accuracy, max_accuracy_so_far)
         THEN <<Head(nodes)>> \o FrontierScan(Tail(nodes), pa, accuracy)
         ELSE FrontierScan(Tail(nodes), pa, max_accuracy_so_far)

\* new_frontier_data
FrontierData(frontier, pa, pc) ==
    [i \in 1 .. Len(frontier) |-> <<pa[frontier[i]], pc[frontier[i]]>>]

\* the newly-on reward taken against the NEW frontier data
NewlyOnReward_new(node_acc, node_real_cost, ctx) ==
    project_to_frontier(node_acc, node_real_cost, ctx.new_frontier_data)

\* vertical_distance_to_old: the distance to the OLD step function
NewlyOnReward(node_acc, node_real_cost, ctx) ==
    project_to_frontier(node_acc, node_real_cost, ctx.archive_frontier_data)

\* the off-frontier distance taken against the OLD frontier data
OffDistance_old(node_acc, node_real_cost, ctx) ==
    -project_to_frontier(node_acc, node_real_cost, ctx.archive_frontier_data)

\* -vertical_distance: minus the distance to the NEW step function
OffDistance(node_acc, node_real_cost, ctx) ==
    -project_to_frontier(node_acc, node_real_cost, ctx.new_frontier_data)

\* the delta with the recorded distance added where it is subtracted
StaysOffDelta_sum(new_distance, old_distance) == new_distance + old_distance

\* the raw distance emitted where the delta is meant
StaysOffDelta_raw(new_distance, old_distance) == new_distance

\* distance_diff = -vertical_distance - old_distance
StaysOffDelta(new_distance, old_distance) == new_distance - old_distance

\* the last branch taken by every node the earlier branches left
StaysOffBranch_else(node, ctx) == TRUE

\* elif node not in new_frontier_set
StaysOffBranch(node, ctx) == node \notin ctx.new_frontier_set

\* the frontier taken as changed only when its size changed
FrontierUpdated_size(old_frontier_set, new_frontier_set) ==
    Cardinality(old_frontier_set) # Cardinality(new_frontier_set)

\* frontier_updated = old_frontier_set != new_frontier_set
FrontierUpdated(old_frontier_set, new_frontier_set) ==
    old_frontier_set # new_frontier_set

\* One iteration of "for node in valid_nodes" (the reward branches).
\* st carries what the loop mutates; ctx what it only reads.
RewardStep(node, st, ctx) ==
    LET node_real_cost == ctx.plans_cost[node]
        node_acc == ctx.plans_accuracy[node]
    IN
    IF node \in ctx.new_frontier_set /\ node \notin ctx.old_frontier_set
    THEN \* newly on the frontier
         LET d == NewlyOnReward(node_acc, node_real_cost, ctx) IN
         [affected_nodes |-> MapSet(st.affected_nodes, node, d),
          node_distances |-> MapSet(st.node_distances, node, d),
          on_frontier    |-> [st.on_frontier EXCEPT ![node] = TRUE],
          action_rewards |-> UpdateActionRewards(st.action_rewards,
                                                 ctx.latest_action[node], d)]
    ELSE IF (node \notin ctx.new_frontier_set /\ node \in ctx.old_frontier_set)
            \/ node = ctx.new_node
    THEN \* newly off, or the inserted node
         LET d == OffDistance(node_acc, node_real_cost, ctx) IN
         [affected_nodes |-> MapSet(st.affected_nodes, node, d),
          node_distances |-> MapSet(st.node_distances, node, d),
          on_frontier    |-> [st.on_frontier EXCEPT ![node] = FALSE],
          action_rewards |-> IF node = ctx.new_node
                             THEN UpdateActionRewards(st.action_rewards,
                                                      ctx.latest_action[node], d)
                             ELSE st.action_rewards]
    ELSE IF StaysOffBranch(node, ctx)
    THEN \* stays off: the delta against the recorded distance
         LET d == OffDistance(node_acc, node_real_cost, ctx)
             old_distance == MapGet(st.node_distances, node, 0)
         IN
         [affected_nodes |-> MapSet(st.affected_nodes, node,
                                    StaysOffDelta(d, old_distance)),
          node_distances |-> MapSet(st.node_distances, node, d),
          on_frontier    |-> [st.on_frontier EXCEPT ![node] = FALSE],
          action_rewards |-> st.action_rewards]
    ELSE st

RECURSIVE RewardLoop(_, _, _)
RewardLoop(nodes, st, ctx) ==
    IF nodes = <<>> THEN st
    ELSE RewardLoop(Tail(nodes), RewardStep(Head(nodes), st, ctx), ctx)

\* update_pareto_frontier_HV(new_node), run on the engine state e (a record of
\* the fields it reads); the result holds every field it writes and both
\* returned values.
UpdateParetoFrontierHV(new_node, e) ==
    LET valid_unsorted == ValidNodes(e.plans, e.cost) IN
    IF valid_unsorted = <<>>
    THEN [frontier_plans |-> <<>>, frontier_data |-> <<>>,
          node_distances |-> e.node_distances, on_frontier |-> e.on_frontier,
          action_rewards |-> e.action_rewards,
          affected_nodes |-> EmptyMap, frontier_updated |-> FALSE]
    ELSE
    LET old_frontier_nodes == e.frontier_plans
        valid_nodes == SortNodes(valid_unsorted, e.plans_cost)
        archive_frontier_data ==
            ArchiveData(old_frontier_nodes, SeqSet(valid_nodes),
                        e.plans_accuracy, e.plans_cost)
        frontier == FrontierScan(valid_nodes, e.plans_accuracy, NegInf)
        new_frontier_data == FrontierData(frontier, e.plans_accuracy, e.plans_cost)
        old_frontier_set == SeqSet(old_frontier_nodes)
        new_frontier_set == SeqSet(frontier)
        ctx == [new_frontier_set |-> new_frontier_set,
                old_frontier_set |-> old_frontier_set,
                archive_frontier_data |-> archive_frontier_data,
                new_frontier_data |-> new_frontier_data,
                new_node |-> new_node,
                plans_cost |-> e.plans_cost,
                plans_accuracy |-> e.plans_accuracy,
                latest_action |-> e.latest_action]
        st == RewardLoop(valid_nodes,
                         [affected_nodes |-> EmptyMap,
                          node_distances |-> e.node_distances,
                          on_frontier |-> e.on_frontier,
                          action_rewards |-> e.action_rewards],
                         ctx)
    IN [frontier_plans |-> frontier, frontier_data |-> new_frontier_data,
        node_distances |-> st.node_distances, on_frontier |-> st.on_frontier,
        action_rewards |-> st.action_rewards,
        affected_nodes |-> st.affected_nodes,
        frontier_updated |-> FrontierUpdated(old_frontier_set, new_frontier_set)]

\* ------------------------------------------------------------------- state
\* the engine state a call starts from
Snapshot ==
    [plans |-> plans, plans_accuracy |-> plans_accuracy, plans_cost |-> plans_cost,
     frontier_plans |-> frontier_plans, frontier_data |-> frontier_data,
     action_rewards |-> action_rewards, node_distances |-> node_distances,
     on_frontier |-> on_frontier]

NoCall == [op |-> "none", node |-> -1, affected_nodes |-> EmptyMap,
           frontier_updated |-> FALSE, raised |-> FALSE, render |-> "none"]

NoProjection == [phase |-> "none"]

\* ParetoFrontier.__init__: empty engine, the driver's action_rewards dictionary
InitEngine ==
    /\ created = 0
    /\ cost = EmptyMap
    /\ latest_action = EmptyMap
    /\ on_frontier = EmptyMap
    /\ plans = <<>>
    /\ plans_accuracy = EmptyMap
    /\ plans_cost = EmptyMap
    /\ frontier_plans = <<>>
    /\ frontier_data = <<>>
    /\ action_rewards = [a \in SinkKeys |-> 0]
    /\ node_distances = EmptyMap
    /\ ret = NoCall
    /\ pre = [plans |-> <<>>, plans_accuracy |-> EmptyMap, plans_cost |-> EmptyMap,
              frontier_plans |-> <<>>, frontier_data |-> <<>>,
              action_rewards |-> [a \in SinkKeys |-> 0],
              node_distances |-> EmptyMap, on_frontier |-> EmptyMap]

NoProbe == [fn |-> "none"]

NoCalls == [mode |-> "none"]

NoLedger == [mode |-> "none"]

\* The driver adds the map a call returned to its ledger and notes the plans
\* on the frontier; a driver that keeps no count has nothing to update.
Audited(l, affected_nodes, frontier) ==
    IF l.mode = "none" THEN l
    ELSE [mode |-> l.mode,
          emitted |-> [n \in DOMAIN l.emitted \cup DOMAIN affected_nodes |->
                          MapGet(l.emitted, n, 0) + MapGet(affected_nodes, n, 0)],
          ever_on |-> l.ever_on \cup SeqSet(frontier)]

Init == InitEngine /\ proj = NoProjection /\ probe = NoProbe /\ calls = NoCalls
        /\ ledger = NoLedger

\* if new_node.id > 0: the plot is drawn for every node but the one of id 0
PlotInvoked(new_node) == new_node > 0

\* The driver creates a node (next id, cost c, producing action a) and hands it
\* to add_plan_f1 with the evaluated accuracy. plot_ok is what the environment
\* does to os.makedirs and plot_plans at the end of update_pareto_frontier_HV:
\* they run after every field is assigned and before the return statement, in
\* no try block, so when one of them raises the call ends in that exception.
add_plan_f1_plot(c, a, accuracy, plot_ok) ==
    /\ created < MaxPlans
    /\ LET node == created
           cost1 == MapSet(cost, node, c)
           act1 == MapSet(latest_action, node, a)
           flag1 == MapSet(on_frontier, node, FALSE)
       IN
       /\ created' = created + 1
       /\ UNCHANGED <<proj, probe, calls>>
       /\ cost' = cost1
       /\ latest_action' = act1
       /\ pre' = [Snapshot EXCEPT !.on_frontier = flag1]
       /\ IF IsFailed(c)
          THEN /\ plans_accuracy' = MapSet(plans_accuracy, node, NegInf)
               /\ on_frontier' = flag1
               /\ ret' = [op |-> "add_plan_f1", node |-> node,
                          affected_nodes |-> EmptyMap, frontier_updated |-> FALSE,
                          raised |-> FALSE, render |-> "none"]
               /\ UNCHANGED <<plans, plans_cost, frontier_plans, frontier_data,
                              action_rewards, node_distances>>
          ELSE LET plans1 == Append(plans, node)
                   pc1 == MapSet(plans_cost, node, c)
                   pa1 == MapSet(plans_accuracy, node, accuracy)
                   res == UpdateParetoFrontierHV(node,
                            [plans |-> plans1, cost |-> cost1, plans_cost |-> pc1,
                             plans_accuracy |-> pa1, latest_action |-> act1,
                             frontier_plans |-> frontier_plans,
                             node_distances |-> node_distances,
                             on_frontier |-> flag1,
                             action_rewards |-> action_rewards])
               IN \E r \in {res} :
               /\ plans' = plans1
               /\ plans_cost' = pc1
               /\ plans_accuracy' = pa1
               /\ frontier_plans' = r.frontier_plans
               /\ frontier_data' = r.frontier_data
               /\ node_distances' = r.node_distances
               /\ on_frontier' = r.on_frontier
               /\ action_rewards' = r.action_rewards
               /\ ret' = IF PlotInvoked(node) /\ ~plot_ok
                          THEN [op |-> "add_plan_f1", node |-> node,
                                affected_nodes |-> EmptyMap,
                                frontier_updated |-> FALSE,
                                raised |-> TRUE, render |-> "failed"]
                          ELSE [op |-> "add_plan_f1", node |-> node,
                                affected_nodes |-> r.affected_nodes,
                                frontier_updated |-> r.frontier_updated,
                                raised |-> FALSE,
                                render |-> IF PlotInvoked(node) THEN "ok"
                                           ELSE "none"]
    /\ ledger' = Audited(ledger, ret'.affected_nodes, frontier_plans')

\* add_plan_f1 where the plot can be drawn
add_plan_f1(c, a, accuracy) == add_plan_f1_plot(c, a, accuracy, TRUE)

\* The driver creates a node and hands it to add_plan, which estimates the
\* accuracy; outcomes is what the comparator does for each frontier member.
\* self.update_pareto_frontier is not a method of the class: the call of it
\* raises AttributeError after the plan, its cost and its accuracy are recorded.
add_plan(c, a, outcomes) ==
    /\ created < MaxPlans
    /\ Len(outcomes) = Len(frontier_plans)
    /\ LET node == created
           flag1 == MapSet(on_frontier, node, FALSE)
       IN
       /\ created' = created + 1
       /\ UNCHANGED <<proj, probe, calls, ledger>>
       /\ cost' = MapSet(cost, node, c)
       /\ latest_action' = MapSet(latest_action, node, a)
       /\ on_frontier' = flag1
       /\ pre' = [Snapshot EXCEPT !.on_frontier = flag1]
       /\ UNCHANGED <<frontier_plans, frontier_data, action_rewards, node_distances>>
       /\ IF IsFailed(c)
          THEN /\ ret' = [op |-> "add_plan", node |-> node,
                          affected_nodes |-> EmptyMap, frontier_updated |-> FALSE,
                          raised |-> FALSE, render |-> "none"]
               /\ UNCHANGED <<plans, plans_cost, plans_accuracy>>
          ELSE LET estimated_accuracy ==
                       IF DOMAIN plans_accuracy = {} THEN 3000
                       ELSE estimate_accuracy_via_comparisons(frontier_plans,
                                                              outcomes, plans_accuracy)
               IN
               /\ plans' = Append(plans, node)
               /\ plans_cost' = MapSet(plans_cost, node, c)
               /\ plans_accuracy' = MapSet(plans_accuracy, node, estimated_accuracy)
               /\ ret' = [op |-> "add_plan", node |-> node,
                          affected_nodes |-> EmptyMap, frontier_updated |-> FALSE,
                          raised |-> TRUE, render |-> "none"]

IngestValid == \E c \in Costs, a \in Actions, accuracy \in Accuracies :
                   add_plan_f1(c, a, accuracy)

IngestFailed == \E a \in Actions, accuracy \in Accuracies :
                    add_plan_f1(FAIL_COST, a, accuracy)

Next == IngestValid \/ IngestFailed

Spec == Init /\ [][Next]_vars

\* ------------------------------------------------- both entry points mixed
OutcomeSeqs(n) == [1 .. n -> MixOutcomes]

SuppliedValid == \E c \in MixCosts, a \in MixActions, accuracy \in MixAccuracies :
                     add_plan_f1(c, a, accuracy)

SuppliedFailed == \E a \in MixActions : add_plan_f1(FAIL_COST, a, 3000)

EstimatedValid == \E c \in MixCosts, a \in MixActions,
                     o \in OutcomeSeqs(Len(frontier_plans)) :
                      add_plan(c, a, o)

EstimatedFailed == \E a \in MixActions, o \in OutcomeSeqs(Len(frontier_plans)) :
                       add_plan(FAIL_COST, a, o)

NextIngest == SuppliedValid \/ SuppliedFailed \/ EstimatedValid \/ EstimatedFailed

SpecIngest == Init /\ [][NextIngest]_vars

\* ------------------------------- add_plan_f1 with a driver that keeps count
InitCredit ==
    /\ InitEngine
    /\ proj = NoProjection
    /\ probe = NoProbe
    /\ calls = NoCalls
    /\ ledger = [mode |-> "on", emitted |-> EmptyMap, ever_on |-> {}]

SpecCredit == InitCredit /\ [][Next]_vars

\* ------------------------------------- add_plan_f1 with a plot that can fail
PlottedValid == \E c \in MixCosts, accuracy \in Accuracies, plot_ok \in BOOLEAN :
                    add_plan_f1_plot(c, "a1", accuracy, plot_ok)

PlottedFailed == \E plot_ok \in BOOLEAN :
                     add_plan_f1_plot(FAIL_COST, "a1", 3000, plot_ok)

NextRender == PlottedValid \/ PlottedFailed

SpecRender == Init /\ [][NextRender]_vars

\* ---------------------------------------------- project_to_frontier on its own
\* (engineVars: every variable of the engine)
engineVars == <<created, cost, latest_action, on_frontier, plans, plans_accuracy,
                plans_cost, frontier_plans, frontier_data, action_rewards,
                node_distances, ret, pre>>

InitProject ==
    /\ InitEngine
    /\ calls = NoCalls
    /\ ledger = NoLedger
    /\ probe = NoProbe
    /\ \E fd \in RefFrontiers, acc \in ProbeAccuracies, c \in ProbeCosts :
           proj = [phase |-> "call", frontier_data |-> fd,
                   node_acc |-> acc, node_cost |-> c]

Project ==
    /\ proj.phase = "call"
    /\ proj' = [phase |-> "returned", frontier_data |-> proj.frontier_data,
                node_acc |-> proj.node_acc, node_cost |-> proj.node_cost,
                distance |-> project_to_frontier(proj.node_acc, proj.node_cost,
                                                 proj.frontier_data)]
    /\ UNCHANGED <<engineVars, probe, ledger, calls>>

SpecProject == InitProject /\ [][Project]_vars

\* --------------------------------- estimate_accuracy_via_comparisons on its own
\* The frontier has the members 1 .. n with the known accuracies accs[i];
\* outcomes[i] is what the comparator does for member i.
InitEstimate ==
    /\ InitEngine
    /\ calls = NoCalls
    /\ ledger = NoLedger
    /\ proj = NoProjection
    /\ \E n \in 0 .. MaxMembers :
           \E accs \in [1 .. n -> EstAccuracies], outcomes \in [1 .. n -> Outcomes] :
               probe = [fn |-> "estimate_accuracy_via_comparisons",
                        phase |-> "call", accs |-> accs, outcomes |-> outcomes]

Estimate ==
    /\ probe.fn = "estimate_accuracy_via_comparisons"
    /\ probe.phase = "call"
    /\ LET comparison_nodes == [i \in 1 .. Len(probe.accs) |-> i]
           accuracy_estimates == AccuracyEstimates(comparison_nodes,
                                                   probe.outcomes, probe.accs)
       IN probe' = [fn |-> probe.fn, phase |-> "returned",
                    accs |-> probe.accs, outcomes |-> probe.outcomes,
                    accuracy_estimates |-> accuracy_estimates,
                    result |-> estimate_accuracy_via_comparisons(
                                   comparison_nodes, probe.outcomes, probe.accs)]
    /\ UNCHANGED <<engineVars, proj, ledger, calls>>

SpecEstimate == InitEstimate /\ [][Estimate]_vars

\* ----------------------------------- add_plan_f1 called from several threads
\* Each thread runs add_plan_f1 in four steps, between which another thread
\* can run: it records the plan (lines 131-137), scans the plan set into its
\* local frontier (272-320), runs the reward loop (323-372) and assigns
\* frontier_plans and frontier_data (374-375).  When the driver serialises the
\* calls (calls.locking) a call begins only when no other call is running.
Threads == {1, 2}

InitConcurrent ==
    /\ InitEngine
    /\ proj = NoProjection
    /\ probe = NoProbe
    /\ ledger = NoLedger
    /\ \E locking \in BOOLEAN :
           calls = [mode |-> "threads", locking |-> locking,
                    th |-> [t \in Threads |-> [pc |-> "idle"]]]

Begin(t, c, accuracy) ==
    /\ created < MaxPlans
    /\ calls.th[t].pc = "idle"
    /\ calls.locking => \A u \in Threads : calls.th[u].pc = "idle"
    /\ LET node == created IN
       /\ created' = created + 1
       /\ cost' = MapSet(cost, node, c)
       /\ latest_action' = MapSet(latest_action, node, "a1")
       /\ on_frontier' = MapSet(on_frontier, node, FALSE)
       /\ plans' = Append(plans, node)
       /\ plans_cost' = MapSet(plans_cost, node, c)
       /\ plans_accuracy' = MapSet(plans_accuracy, node, accuracy)
       /\ calls' = [calls EXCEPT !.th[t] = [pc |-> "recorded", node |-> node]]
    /\ UNCHANGED <<frontier_plans, frontier_data, action_rewards, node_distances,
                   ret, pre, proj, probe, ledger>>

Scan(t) ==
    /\ calls.th[t].pc = "recorded"
    /\ LET valid_nodes == SortNodes(ValidNodes(plans, cost), plans_cost)
           old_frontier_nodes == frontier_plans
           frontier == FrontierScan(valid_nodes, plans_accuracy, NegInf)
       IN calls' = [calls EXCEPT !.th[t] =
                       [pc |-> "scanned", node |-> calls.th[t].node,
                        valid_nodes |-> valid_nodes,
                        old_frontier_nodes |-> old_frontier_nodes,
                        archive_frontier_data |->
                            ArchiveData(old_frontier_nodes, SeqSet(valid_nodes),
                                        plans_accuracy, plans_cost),
                        frontier |-> frontier,
                        new_frontier_data |->
                            FrontierData(frontier, plans_accuracy, plans_cost)]]
    /\ UNCHANGED <<engineVars, proj, probe, ledger>>

Reward(t) ==
    /\ calls.th[t].pc = "scanned"
    /\ LET l == calls.th[t]
           ctx == [new_frontier_set |-> SeqSet(l.frontier),
                   old_frontier_set |-> SeqSet(l.old_frontier_nodes),
                   archive_frontier_data |-> l.archive_frontier_data,
                   new_frontier_data |-> l.new_frontier_data,
                   new_node |-> l.node,
                   plans_cost |-> plans_cost,
                   plans_accuracy |-> plans_accuracy,
                   latest_action |-> latest_action]
           res == RewardLoop(l.valid_nodes,
                             [affected_nodes |-> EmptyMap,
                              node_distances |-> node_distances,
                              on_frontier |-> on_frontier,
                              action_rewards |-> action_rewards],
                             ctx)
       IN \E st \in {res} :
          /\ node_distances' = st.node_distances
          /\ on_frontier' = st.on_frontier
          /\ action_rewards' = st.action_rewards
          /\ calls' = [calls EXCEPT !.th[t].pc = "rewarded"]
    /\ UNCHANGED <<created, cost, latest_action, plans, plans_accuracy, plans_cost,
                   frontier_plans, frontier_data, ret, pre, proj, probe, ledger>>

Commit(t) ==
    /\ calls.th[t].pc = "rewarded"
    /\ frontier_plans' = calls.th[t].frontier
    /\ frontier_data' = calls.th[t].new_frontier_data
    /\ calls' = [calls EXCEPT !.th[t] = [pc |-> "idle"]]
    /\ UNCHANGED <<created, cost, latest_action, on_frontier, plans,
                   plans_accuracy, plans_cost, action_rewards, node_distances,
                   ret, pre, proj, probe, ledger>>

ThreadBegins == \E t \in Threads, c \in MixCosts, accuracy \in MixAccuracies :
                    Begin(t, c, accuracy)
ThreadScans == \E t \in Threads : Scan(t)
ThreadRewards == \E t \in Threads : Reward(t)
ThreadCommits == \E t \in Threads : Commit(t)

NextConcurrent == ThreadBegins \/ ThreadScans \/ ThreadRewards \/ ThreadCommits

SpecConcurrent == InitConcurrent /\ [][NextConcurrent]_vars

\* ------------------------------------------------- mcts_utils.py: tree search
Square(x) == x * x

\* math.floor(math.sqrt(float(x))) for an integer x >= 0: the largest k with
\* k * k <= x
RECURSIVE FloorSqrtFrom(_, _)
FloorSqrtFrom(x, k) == IF Square(k + 1) > x THEN k ELSE FloorSqrtFrom(x, k + 1)
FloorSqrt(x) == FloorSqrtFrom(x, 0)

\* a node with one child allowed as fully explored
AllowedChildren_min1(visits, multiplier) ==
    Max2(1, 1 + (FloorSqrt(visits * Square(multiplier[1])) \div multiplier[2]))

\* allowed_children = max(2, 1 + floor(sqrt(float(node.visits)) * multiplier));
\* with multiplier = p / d, floor(sqrt(v) * p / d) is floor(sqrt(v * p * p)) \div d
AllowedChildren(visits, multiplier) ==
    Max2(2, 1 + (FloorSqrt(visits * Square(multiplier[1])) \div multiplier[2]))

\* return len(node.children) >= allowed_children
is_fully_explored(visits, children, multiplier) ==
    children >= AllowedChildren(visits, multiplier)

\* the iteration limit passed by one more iteration
IterationsExhausted_gt(iteration, max_iterations) == iteration > max_iterations

\* if iteration >= max_iterations: return False
IterationsExhausted(iteration, max_iterations) == iteration >= max_iterations

\* should_continue_search; now is what time.time() returns, read only when the
\* iteration limit is not reached and max_time is not None
should_continue_search(iteration, max_iterations, start_time, max_time, now) ==
    IF IterationsExhausted(iteration, max_iterations) THEN FALSE
    ELSE IF max_time # <<>> /\ (now - start_time) >= max_time[1] THEN FALSE
    ELSE TRUE

\* the score computed before the visit count is looked at
calculate_ucb1_late(visits, value, parent_visits, exploration_constant) ==
    IF parent_visits <= 0 THEN [kind |-> "ValueError"]
    ELSE IF visits = 0 THEN [kind |-> "inf"]
    ELSE [kind |-> "finite", value |-> value, visits |-> visits,
          parent_visits |-> parent_visits,
          exploration_constant |-> exploration_constant]

\* calculate_ucb1: float('inf') for a node without visits; otherwise
\* value / visits + c * sqrt(log(parent_visits) / visits), a finite float kept
\* here as the term it is computed from; math.log raises ValueError for
\* parent_visits <= 0
calculate_ucb1(visits, value, parent_visits, exploration_constant) ==
    IF visits = 0 THEN [kind |-> "inf"]
    ELSE IF parent_visits <= 0 THEN [kind |-> "ValueError"]
    ELSE [kind |-> "finite", value |-> value, visits |-> visits,
          parent_visits |-> parent_visits,
          exploration_constant |-> exploration_constant]

InitUtils ==
    /\ InitEngine
    /\ calls = NoCalls
    /\ ledger = NoLedger
    /\ proj = NoProjection
    /\ \/ \E v \in 0 .. MaxVisits, ch \in 0 .. MaxChildren, m \in Multipliers :
              probe = [fn |-> "is_fully_explored", phase |-> "call",
                       visits |-> v, children |-> ch, multiplier |-> m]
       \/ \E i \in 0 .. MaxIterations, mi \in 0 .. MaxIterations,
             st \in StartTimes, mt \in MaxTimes :
              probe = [fn |-> "should_continue_search", phase |-> "call",
                       iteration |-> i, max_iterations |-> mi,
                       start_time |-> st, max_time |-> mt]
       \/ \E v \in 0 .. MaxVisits, val \in NodeValues, pv \in ParentVisits,
             c \in ExplorationConstants :
              probe = [fn |-> "calculate_ucb1", phase |-> "call",
                       visits |-> v, value |-> val, parent_visits |-> pv,
                       exploration_constant |-> c]

FullyExplored ==
    /\ probe.fn = "is_fully_explored" /\ probe.phase = "call"
    /\ probe' = [probe EXCEPT !.phase = "returned"]
                    @@ [result |-> is_fully_explored(probe.visits, probe.children,
                                                     probe.multiplier)]
    /\ UNCHANGED <<engineVars, proj, ledger, calls>>

ContinueSearch ==
    /\ probe.fn = "should_continue_search" /\ probe.phase = "call"
    /\ \E now \in 0 .. MaxClock :
           probe' = [probe EXCEPT !.phase = "returned"]
                       @@ [now |-> now,
                           result |-> should_continue_search(
                                          probe.iteration, probe.max_iterations,
                                          probe.start_time, probe.max_time, now)]
    /\ UNCHANGED <<engineVars, proj, ledger, calls>>

Ucb1 ==
    /\ probe.fn = "calculate_ucb1" /\ probe.phase = "call"
    /\ probe' = [probe EXCEPT !.phase = "returned"]
                    @@ [result |-> calculate_ucb1(probe.visits, probe.value,
                                                  probe.parent_visits,
                                                  probe.exploration_constant)]
    /\ UNCHANGED <<engineVars, proj, ledger, calls>>

NextUtils == FullyExplored \/ ContinueSearch \/ Ucb1

SpecUtils == InitUtils /\ [][NextUtils]_vars

\* ------------------------------------------------ mcts_utils.py: trim_history
RECURSIVE TotalChars(_)
TotalChars(messages) ==
    IF messages = <<>> THEN 0
    ELSE Head(messages).chars + TotalChars(Tail(messages))

\* count_tokens: max(1, total_chars // 4)
count_tokens(messages) == Max2(1, TotalChars(messages) \div 4)

\* "for i in range(1, len(history)): if role == user: start_idx = i + 1; break"
\* from the 0-based index i on; the start_idx it leaves (dflt when no user
\* message is found)
RECURSIVE AfterFirstUser(_, _, _)
AfterFirstUser(history, i, dflt) ==
    IF i >= Len(history) THEN dflt
    ELSE IF history[i + 1].role = "user" THEN i + 1
    ELSE AfterFirstUser(history, i + 1, dflt)

\* start_idx: the length of the preserved block
StartIdx(history, keep_system_first) ==
    IF keep_system_first /\ history # <<>>
    THEN IF history[1].role = "system" THEN AfterFirstUser(history, 1, 1)
         ELSE IF history[1].role = "user" THEN AfterFirstUser(history, 1, 1)
         ELSE 0
    ELSE 0

\* history.pop(start_idx)
Pop(history, start_idx) ==
    SubSeq(history, 1, start_idx) \o SubSeq(history, start_idx + 2, Len(history))

\* the while loop of trim_history
RECURSIVE TrimLoop(_, _)
TrimLoop(history, start_idx) ==
    IF Len(history) > start_idx + 1 /\ count_tokens(history) > MAX_CONTEXT_TOKENS
    THEN TrimLoop(Pop(history, start_idx), start_idx)
    ELSE history

trim_history(history, keep_system_first) ==
    TrimLoop(history, StartIdx(history, keep_system_first))

InitTrim ==
    /\ InitEngine
    /\ proj = NoProjection
    /\ calls = NoCalls
    /\ ledger = NoLedger
    /\ \E n \in 0 .. MaxHistory, keep_system_first \in BOOLEAN :
           \E history \in Histories(n) :
               probe = [fn |-> "trim_history", phase |-> "call",
                        history |-> history,
                        keep_system_first |-> keep_system_first]

Trim ==
    /\ probe.fn = "trim_history" /\ probe.phase = "call"
    /\ probe' = [fn |-> probe.fn, phase |-> "returned",
                 history |-> probe.history,
                 keep_system_first |-> probe.keep_system_first,
                 result |-> trim_history(probe.history, probe.keep_system_first)]
    /\ UNCHANGED <<engineVars, proj, ledger, calls>>

SpecTrim == InitTrim /\ [][Trim]_vars

\* ------------------------------- agent_utils.py: truncate_message_content
RECURSIVE TotalTokens(_)
TotalTokens(messages) ==
    IF messages = <<>> THEN 0
    ELSE Head(messages).tokens + TotalTokens(Tail(messages))

\* reversed(middle_messages)
RECURSIVE Reversed(_)
Reversed(s) == IF s = <<>> THEN <<>> ELSE Append(Reversed(Tail(s)), Head(s))

\* truncated_messages.insert(-1, msg): in front of the last element
InsertKept(truncated_messages, msg) ==
    Append(SubSeq(truncated_messages, 1, Len(truncated_messages) - 1), msg)
        \o <<truncated_messages[Len(truncated_messages)]>>

\* "for msg in reversed(middle_messages)": rest is what is left to visit
RECURSIVE MiddleLoop(_, _, _, _)
MiddleLoop(rest, truncated_messages, current_tokens, available_tokens) ==
    IF rest = <<>> THEN truncated_messages
    ELSE LET msg == Head(rest) IN
         IF current_tokens + msg.tokens <= available_tokens
         THEN MiddleLoop(Tail(rest), InsertKept(truncated_messages, msg),
                         current_tokens + msg.tokens, available_tokens)
         ELSE truncated_messages

truncate_message_content(messages, max_tokens) ==
    IF messages = <<>> THEN messages
    ELSE IF TotalTokens(messages) <= max_tokens THEN messages
    ELSE
    LET has_system == messages[1].role = "system"
        remaining_messages == IF has_system THEN Tail(messages) ELSE messages
        kept_system == IF has_system THEN <<messages[1]>> ELSE <<>>
        truncated_messages ==
            IF remaining_messages # <<>>
            THEN Append(kept_system, remaining_messages[Len(remaining_messages)])
            ELSE kept_system
        middle_messages ==
            IF remaining_messages # <<>>
            THEN SubSeq(remaining_messages, 1, Len(remaining_messages) - 1)
            ELSE <<>>
        system_tokens ==
            IF truncated_messages # <<>> THEN truncated_messages[1].tokens ELSE 0
        latest_tokens ==
            IF Len(truncated_messages) > 1
            THEN truncated_messages[Len(truncated_messages)].tokens
            ELSE 0
        available_tokens == max_tokens - system_tokens - latest_tokens - RESPONSE_BUFFER
    IN MiddleLoop(Reversed(middle_messages), truncated_messages, 0, available_tokens)

InitTruncate ==
    /\ InitEngine
    /\ proj = NoProjection
    /\ calls = NoCalls
    /\ ledger = NoLedger
    /\ \E n \in 0 .. MaxMessages, max_tokens \in TokenBudgets :
           \E messages \in TokenMessages(n) :
               probe = [fn |-> "truncate_message_content", phase |-> "call",
                        messages |-> messages, max_tokens |-> max_tokens]

Truncate ==
    /\ probe.fn = "truncate_message_content" /\ probe.phase = "call"
    /\ probe' = [fn |-> probe.fn, phase |-> "returned",
                 messages |-> probe.messages, max_tokens |-> probe.max_tokens,
                 result |-> truncate_message_content(probe.messages,
                                                     probe.max_tokens)]
    /\ UNCHANGED <<engineVars, proj, ledger, calls>>

SpecTruncate == InitTruncate /\ [][Truncate]_vars

\* ------------------------------------------- agent_utils.py: ReadNextDocTool
\* A tool is the record of its fields input_data and current_index; Python's
\* input_data[i] is input_data[i + 1] here.
\* has_more_docs with <= for <
has_more_docs_le(tool) == tool.current_index <= Len(tool.input_data)

\* return self.current_index < len(self.input_data)
has_more_docs(tool) == tool.current_index < Len(tool.input_data)

\* return len(self.input_data) - self.current_index
get_remaining_count(tool) == Len(tool.input_data) - tool.current_index

\* read_next_doc: the tool after the call and what the call returns (none is
\* TRUE for None, and docs then holds nothing)
read_next_doc(tool) ==
    IF tool.current_index >= Len(tool.input_data)
    THEN [tool |-> tool, none |-> TRUE, docs |-> <<>>]
    ELSE [tool |-> [tool EXCEPT !.current_index = @ + 1],
          none |-> FALSE,
          docs |-> <<tool.input_data[tool.current_index + 1]>>]

\* read_next_docs that stops after its first document
read_next_docs_one(tool, count, docs) ==
    IF count <= 0 \/ tool.current_index >= Len(tool.input_data)
    THEN [tool |-> tool, none |-> FALSE, docs |-> docs]
    ELSE [tool |-> [tool EXCEPT !.current_index = @ + 1], none |-> FALSE,
          docs |-> Append(docs, tool.input_data[tool.current_index + 1])]

\* read_next_docs: "for _ in range(count)" with count iterations left and the
\* list docs built so far
RECURSIVE read_next_docs(_, _, _)
read_next_docs(tool, count, docs) ==
    IF count <= 0 \/ tool.current_index >= Len(tool.input_data)
    THEN [tool |-> tool, none |-> FALSE, docs |-> docs]
    ELSE read_next_docs([tool EXCEPT !.current_index = @ + 1], count - 1,
                        Append(docs, tool.input_data[tool.current_index + 1]))

\* __init__: current_index = 0; returned is everything the calls have
\* returned so far, in call order
InitReader ==
    /\ InitEngine
    /\ proj = NoProjection
    /\ calls = NoCalls
    /\ ledger = NoLedger
    /\ \E n \in 0 .. MaxDocs : \E input_data \in [1 .. n -> Docs] :
           probe = [fn |-> "ReadNextDocTool",
                    tool |-> [input_data |-> input_data, current_index |-> 0],
                    returned |-> <<>>,
                    last |-> [op |-> "__init__"]]

ReadOne ==
    /\ probe.fn = "ReadNextDocTool"
    /\ LET r == read_next_doc(probe.tool) IN
       probe' = [fn |-> probe.fn, tool |-> r.tool,
                 returned |-> probe.returned \o r.docs,
                 last |-> [op |-> "read_next_doc", none |-> r.none,
                           docs |-> r.docs, before |-> probe.tool]]
    /\ UNCHANGED <<engineVars, proj, ledger, calls>>

ReadMany ==
    /\ probe.fn = "ReadNextDocTool"
    /\ \E count \in 0 .. MaxCount :
           LET r == read_next_docs(probe.tool, count, <<>>) IN
           probe' = [fn |-> probe.fn, tool |-> r.tool,
                     returned |-> probe.returned \o r.docs,
                     last |-> [op |-> "read_next_docs", count |-> count,
                               none |-> r.none, docs |-> r.docs,
                               before |-> probe.tool]]
    /\ UNCHANGED <<engineVars, proj, ledger, calls>>

NextReader == ReadOne \/ ReadMany

SpecReader == InitReader /\ [][NextReader]_vars

\* ------------------- agent_utils.py: the final schema loop of run_agentic_loop
\* A message is the record of its role and of the attempt it belongs to (0 for
\* the messages of the decision loop).  MAX_DIRECTIVE_INSTANTIATION_ATTEMPTS is
\* imported from a module outside this source tree: the run takes its value
\* max_attempts as an input.
DecisionHistories ==
    {<<[role |-> "system", attempt |-> 0], [role |-> "user", attempt |-> 0]>>,
     <<[role |-> "system", attempt |-> 0], [role |-> "user", attempt |-> 0],
       [role |-> "assistant", attempt |-> 0], [role |-> "user", attempt |-> 0]>>}

\* the try block: json.loads, response_schema(**parsed) and, when there is a
\* validation_func, validation_func(schema_instance) all return
Passes(response, has_validation) ==
    response.parses /\ (has_validation => response.validates)

\* the history extended after the last attempt as well
RetriesLeft_le(attempt, max_attempts) == attempt <= max_attempts - 1

\* if attempt < MAX_DIRECTIVE_INSTANTIATION_ATTEMPTS - 1
RetriesLeft(attempt, max_attempts) == attempt < max_attempts - 1

InitSchema ==
    /\ InitEngine
    /\ proj = NoProjection
    /\ calls = NoCalls
    /\ ledger = NoLedger
    /\ \E max_attempts \in 1 .. MaxAttempts, has_validation \in BOOLEAN,
          h \in DecisionHistories :
           probe = [fn |-> "run_agentic_loop", status |-> "running",
                    max_attempts |-> max_attempts,
                    has_validation |-> has_validation,
                    attempt |-> 0, completions |-> 0,
                    message_history |-> h, initial_history |-> h,
                    responses |-> <<>>]

\* one iteration of "for attempt in range(MAX_...)": completion returns the
\* response
SchemaAttempt ==
    /\ probe.fn = "run_agentic_loop" /\ probe.status = "running"
    /\ probe.attempt < probe.max_attempts
    /\ \E response \in Responses :
           LET assistant == [role |-> "assistant", attempt |-> probe.attempt + 1]
               user == [role |-> "user", attempt |-> probe.attempt + 1]
           IN
           IF Passes(response, probe.has_validation)
           THEN probe' = [probe EXCEPT
                              !.status = "returned",
                              !.completions = @ + 1,
                              !.responses = Append(@, response),
                              !.message_history = Append(@, assistant)]
           ELSE probe' = [probe EXCEPT
                              !.attempt = @ + 1,
                              !.completions = @ + 1,
                              !.responses = Append(@, response),
                              !.message_history =
                                  IF RetriesLeft(probe.attempt, probe.max_attempts)
                                  THEN @ \o <<assistant, user>>
                                  ELSE @]
    /\ UNCHANGED <<engineVars, proj, ledger, calls>>

\* completion itself raises (it is called outside the try block): the
\* exception leaves run_agentic_loop
CompletionRaises ==
    /\ probe.fn = "run_agentic_loop" /\ probe.status = "running"
    /\ probe.attempt < probe.max_attempts
    /\ probe' = [probe EXCEPT !.status = "raised", !.completions = @ + 1]
    /\ UNCHANGED <<engineVars, proj, ledger, calls>>

\* the loop is over: raise Exception("Failed to generate valid schema ...")
SchemaGiveUp ==
    /\ probe.fn = "run_agentic_loop" /\ probe.status = "running"
    /\ probe.attempt >= probe.max_attempts
    /\ probe' = [probe EXCEPT !.status = "raised"]
    /\ UNCHANGED <<engineVars, proj, ledger, calls>>

NextSchema == SchemaAttempt \/ CompletionRaises \/ SchemaGiveUp

SpecSchema == InitSchema /\ [][NextSchema]_vars

\* ================================================================== claims
FrontierSet == SeqSet(frontier_plans)
PlanSet == SeqSet(plans)
\* the nodes handed to an ingest with the failure sentinel as their cost
FailedNodes == {n \in DOMAIN cost : cost[n] = FAIL_COST}

\* C1: frontier_plans is listed in ascending cost order and accuracy strictly
\* increases along it; hence for two frontier members of which one is cheaper,
\* the cheaper one has the strictly lower accuracy.
C1_MonotonicFrontier ==
    /\ \A i, j \in 1 .. Len(frontier_plans) :
           i < j => /\ plans_cost[frontier_plans[i]] <= plans_cost[frontier_plans[j]]
                    /\ plans_accuracy[frontier_plans[i]]
                          < plans_accuracy[frontier_plans[j]]
    /\ \A m, n \in FrontierSet :
           plans_cost[m] < plans_cost[n] => plans_accuracy[m] < plans_accuracy[n]

C1_Witness ==
    /\ Len(frontier_plans) = 3
    /\ ret.op = "add_plan_f1"
    /\ plans_cost[frontier_plans[1]] < plans_cost[frontier_plans[3]]

\* C2: no recorded plan has cost less than or equal to a frontier member's
\* cost and accuracy strictly greater than that member's accuracy.
C2_DominationExclusion ==
    \A p \in PlanSet : \A m \in FrontierSet :
        ~(plans_cost[p] <= plans_cost[m] /\ plans_accuracy[p] > plans_accuracy[m])

\* C3: two different plans with the same cost are never both on the frontier.
C3_OneMemberPerCost ==
    \A m, n \in FrontierSet : m # n => plans_cost[m] # plans_cost[n]

\* C4: a plan ingested with the failure sentinel as its cost is never in
\* frontier_plans, never has a credit entry, is in no returned map, and no
\* action_rewards entry changes on its account: its own ingest leaves the sink
\* as it was, and an entry that a call changes is the action of a valid plan
\* the call scored.
C4_FailedNeverScores ==
    /\ \A n \in FailedNodes :
           /\ n \notin FrontierSet
           /\ n \notin DOMAIN node_distances
           /\ n \notin DOMAIN ret.affected_nodes
           /\ ret.node = n => action_rewards = pre.action_rewards
    /\ \A k \in DOMAIN action_rewards :
           action_rewards[k] # pre.action_rewards[k]
               => \E n \in DOMAIN ret.affected_nodes :
                      cost[n] # FAIL_COST /\ latest_action[n] = k

\* a failed plan produced by an action of the sink was ingested, then a valid
\* plan was ingested and credited to the same action
C4_Witness ==
    /\ \E n \in FailedNodes : latest_action[n] = "a1" /\ n < ret.node
    /\ ret.node \notin FailedNodes
    /\ latest_action[ret.node] = "a1"
    /\ action_rewards # pre.action_rewards

\* the reference points of fd whose cost is at most c
PointsUpTo(fd, c) == {p \in SeqSet(fd) : p[2] <= c}
\* the accuracies of the highest-cost reference points with cost at most c
StepCandidates(fd, c) ==
    {p[1] : p \in {q \in PointsUpTo(fd, c) :
                      \A o \in PointsUpTo(fd, c) : o[2] <= q[2]}}
ExampleFrontier == <<<<3600, 10>>, <<4800, 50>>>>

\* C6: the step value project_to_frontier uses at cost C is the accuracy of the
\* highest-cost reference point with cost <= C (0 when C is below every
\* reference point), the distance returned is |accuracy - step value|, and for
\* an empty reference frontier it is the plan's raw accuracy; on the frontier
\* [(0.6,10),(0.8,50)] the step values at costs 5, 10, 30, 100 are 0, 0.6,
\* 0.6, 0.8.
C6_StepFunctionLookup ==
    proj.phase = "returned" =>
        LET fd == proj.frontier_data
            c == proj.node_cost
            step == StepFunctionAccuracy(c, fd)
        IN
        /\ fd = <<>> => proj.distance = proj.node_acc
        /\ fd # <<>> =>
              /\ PointsUpTo(fd, c) = {} => step = 0
              /\ PointsUpTo(fd, c) # {} => step \in StepCandidates(fd, c)
              /\ proj.distance = Abs(proj.node_acc - step)
              /\ proj.distance >= 0
        /\ fd = ExampleFrontier =>
              /\ c = 5 => step = 0 /\ proj.distance = proj.node_acc
              /\ c = 10 => step = 3600
              /\ c = 30 => step = 3600
              /\ c = 100 => step = 4800

\* the plan of accuracy 0.5 at the cost of the example's first point, which
\* lies 0.1 below the step
C6_Witness ==
    /\ proj.phase = "returned"
    /\ proj.frontier_data = ExampleFrontier
    /\ proj.node_cost = 10
    /\ proj.node_acc = 3000
    /\ proj.distance = 600

\* ------------------------------------------------ the last add_plan_f1 call
\* the last call was an add_plan_f1 of a plan with a valid cost
ValidCall == ret.op = "add_plan_f1" /\ cost[ret.node] # FAIL_COST
OldFrontierSet == SeqSet(pre.frontier_plans)
\* the step function of a frontier (a set of plans) at cost c: the accuracy of
\* its best member among those costing at most c, 0 if there is none
RECURSIVE MaxOf(_)
MaxOf(S) == LET x == CHOOSE y \in S : TRUE IN
            IF S = {x} THEN x
            ELSE LET m == MaxOf(S \ {x}) IN IF x > m THEN x ELSE m
StepOf(F, c) ==
    LET below == {plans_accuracy[m] : m \in {n \in F : plans_cost[n] <= c}} IN
    IF below = {} THEN 0 ELSE MaxOf(below)
DistanceTo(F, n) == Abs(plans_accuracy[n] - StepOf(F, plans_cost[n]))
NewlyOn == FrontierSet \ OldFrontierSet
NewlyOff == OldFrontierSet \ FrontierSet
StaysOff == (SeqSet(pre.plans) \ OldFrontierSet) \ FrontierSet
StaysOn == (OldFrontierSet \cap FrontierSet) \ {ret.node}
Emitted(n) == ret.affected_nodes[n]

\* C7: a plan the call puts on the frontier is emitted, and gets as its
\* credit, +|accuracy - S_old(cost)| with S_old the step function of the
\* frontier before the call; the first valid plan is on the frontier and
\* receives its raw accuracy (A = (10, 0.6) receives 0.6, and C = (20, 0.9)
\* ingested on the frontier {A} receives 0.3).
C7_NewlyOnReward ==
    ValidCall =>
        /\ \A n \in NewlyOn :
               /\ n \in DOMAIN ret.affected_nodes
               /\ Emitted(n) = DistanceTo(OldFrontierSet, n)
               /\ node_distances[n] = DistanceTo(OldFrontierSet, n)
        /\ Len(plans) = 1 =>
               /\ frontier_plans = plans
               /\ Emitted(plans[1]) = plans_accuracy[plans[1]]
               /\ node_distances[plans[1]] = plans_accuracy[plans[1]]
        /\ \A a \in OldFrontierSet :
               (/\ OldFrontierSet = {a}
                /\ plans_cost[a] = 10 /\ plans_accuracy[a] = 3600
                /\ plans_cost[ret.node] = 20 /\ plans_accuracy[ret.node] = 5400)
               => ret.node \in FrontierSet /\ Emitted(ret.node) = 1800

\* C = (20, 0.9) has joined the frontier {A} with A = (10, 0.6), at distance
\* 0.3 from the old step
C7_Witness ==
    /\ ValidCall
    /\ ret.node \in NewlyOn
    /\ pre.frontier_plans # <<>>
    /\ plans_cost[ret.node] = 20 /\ plans_accuracy[ret.node] = 5400
    /\ StepOf(OldFrontierSet, 20) = 3600
    /\ Emitted(ret.node) = 1800

\* C8: a plan that was on the frontier before the call and is not on it after,
\* and the inserted plan when it is not on the new frontier, is emitted, and
\* gets as its credit, -|accuracy - S_new(cost)| with S_new the step function
\* of the frontier after the call.
C8_NewlyOffReward ==
    ValidCall =>
        \A n \in NewlyOff \cup ({ret.node} \ FrontierSet) :
            /\ n \in DOMAIN ret.affected_nodes
            /\ Emitted(n) = -DistanceTo(FrontierSet, n)
            /\ node_distances[n] = -DistanceTo(FrontierSet, n)

\* the call pushed a plan off the frontier, at a distance from the new step
\* that differs from its distance from the old one
C8_Witness ==
    /\ ValidCall
    /\ \E n \in NewlyOff :
           /\ Emitted(n) < 0
           /\ DistanceTo(FrontierSet, n) # DistanceTo(OldFrontierSet, n)
    /\ \E n \in PlanSet \ FrontierSet : n # ret.node /\ n \notin NewlyOff

\* the inserted plan is off the new frontier, below the step the call left
C8_WitnessInserted ==
    /\ ValidCall
    /\ ret.node \notin FrontierSet
    /\ Emitted(ret.node) < 0

\* C9: a plan off the frontier before and after the call, other than the
\* inserted plan, is emitted the delta (-|accuracy - S_new(cost)|) minus its
\* previously recorded credit, its credit becomes -|accuracy - S_new(cost)|,
\* and the delta is 0 when the step value at the plan's cost did not change.
C9_StaysOffDelta ==
    ValidCall =>
        \A n \in StaysOff :
            /\ n \in DOMAIN ret.affected_nodes
            /\ n \in DOMAIN pre.node_distances
            /\ Emitted(n) = (-DistanceTo(FrontierSet, n)) - pre.node_distances[n]
            /\ node_distances[n] = -DistanceTo(FrontierSet, n)
            /\ StepOf(FrontierSet, plans_cost[n]) = StepOf(OldFrontierSet, plans_cost[n])
                   => Emitted(n) = 0

\* one plan stayed off with the step at its cost raised (a delta other than 0
\* on a penalty other than 0), another with the step at its cost unchanged
C9_Witness ==
    /\ ValidCall
    /\ \E n \in StaysOff :
           /\ Emitted(n) # 0
           /\ pre.node_distances[n] # 0
           /\ Emitted(n) # node_distances[n]

C9_WitnessUnchanged ==
    /\ ValidCall
    /\ \E n \in StaysOff :
           /\ StepOf(FrontierSet, plans_cost[n]) = StepOf(OldFrontierSet, plans_cost[n])
           /\ node_distances[n] < 0
           /\ Emitted(n) = 0
    /\ ret.frontier_updated

\* C10: a plan on the frontier before and after the call, other than the
\* inserted plan, has no entry in the returned map, and its credit and its
\* on_frontier flag are as they were before the call.
C10_StaysOnUntouched ==
    ValidCall =>
        \A n \in StaysOn :
            /\ n \notin DOMAIN ret.affected_nodes
            /\ n \in DOMAIN node_distances
            /\ node_distances[n] = pre.node_distances[n]
            /\ on_frontier[n] = pre.on_frontier[n]
            /\ on_frontier[n] = TRUE

\* a plan stayed on the frontier through a call that changed the frontier and
\* scored other plans
C10_Witness ==
    /\ ValidCall
    /\ StaysOn # {}
    /\ NewlyOff # {}
    /\ NewlyOn # {}

\* C5: ingesting a plan whose cost is the failure sentinel, through either
\* entry point, returns an empty map (and frontier_changed = false) and leaves
\* the plan list, the frontier, the frontier data, the credit map, every
\* on_frontier flag and the action-reward sink as they were.
C5_FailedIngestIsNoOp ==
    (ret.op \in {"add_plan_f1", "add_plan"} /\ cost[ret.node] = FAIL_COST) =>
        /\ ret.affected_nodes = EmptyMap
        /\ ret.frontier_updated = FALSE
        /\ ret.raised = FALSE
        /\ plans = pre.plans
        /\ frontier_plans = pre.frontier_plans
        /\ frontier_data = pre.frontier_data
        /\ node_distances = pre.node_distances
        /\ on_frontier = pre.on_frontier
        /\ action_rewards = pre.action_rewards

\* a failed plan went through add_plan after another went through add_plan_f1
\* (which left its -inf accuracy), on an engine that holds a frontier, an
\* off-frontier plan and a credited action
C5_Witness ==
    /\ ret.op = "add_plan" /\ cost[ret.node] = FAIL_COST
    /\ \E n \in FailedNodes : n \in DOMAIN plans_accuracy /\ plans_accuracy[n] = NegInf
    /\ frontier_plans # <<>>
    /\ action_rewards["a1"] # 0

\* the plans whose recorded credit after the call is not what it was before
\* (an entry that the call created counts as changed)
CreditChanged ==
    {n \in DOMAIN node_distances :
        n \notin DOMAIN pre.node_distances
        \/ node_distances[n] # pre.node_distances[n]}

\* C11 as stated: the returned map has an entry for a plan if and only if the
\* plan's recorded credit changed in the call.
C11_EntryIffCreditChanged ==
    ret.op = "add_plan_f1" => DOMAIN ret.affected_nodes = CreditChanged

\* C11 as amended: the returned map has an entry for every plan whose recorded
\* credit changed in the call; a plan in the map whose credit did not change
\* is a plan that stayed off the frontier, with an emitted delta of 0.
C11_EntryIfCreditChanged ==
    ret.op = "add_plan_f1" =>
        /\ CreditChanged \subseteq DOMAIN ret.affected_nodes
        /\ \A n \in (DOMAIN ret.affected_nodes) \ CreditChanged :
               n \in StaysOff /\ Emitted(n) = 0

\* the call changed the credit of one plan and emitted a delta of 0 for a plan
\* that stayed off with a penalty it keeps
C11_Witness ==
    /\ ValidCall
    /\ CreditChanged # {}
    /\ \E n \in (DOMAIN ret.affected_nodes) \ CreditChanged :
           node_distances[n] < 0 /\ Emitted(n) = 0

\* C12: the boolean add_plan_f1 returns is true if and only if the set of
\* plans on the frontier after the call differs from the set before it.
C12_FrontierChangedFlag ==
    ret.op = "add_plan_f1" =>
        (ret.frontier_updated <=> FrontierSet # OldFrontierSet)

\* the call replaced a frontier member by the inserted plan: the frontier has
\* the size it had and other members
C12_Witness ==
    /\ ValidCall
    /\ ret.frontier_updated
    /\ Cardinality(FrontierSet) = Cardinality(OldFrontierSet)
    /\ OldFrontierSet # {}

\* the plans of the plan set with a valid cost
ValidPlans == {n \in PlanSet : cost[n] # FAIL_COST}

\* C13: after every add_plan_f1 call, every valid plan of the plan set has its
\* on_frontier flag true if and only if it is in frontier_plans.
C13_FlagMatchesFrontier ==
    ret.op = "add_plan_f1" =>
        \A n \in ValidPlans : on_frontier[n] <=> n \in FrontierSet

\* after a call the plan set holds a valid plan on the frontier, a valid plan
\* the call has just taken off it and a plan that stayed on it
C13_Witness ==
    /\ ValidCall
    /\ NewlyOff # {}
    /\ StaysOn # {}
    /\ ret.node \in FrontierSet
    /\ \E n \in ValidPlans : ~on_frontier[n]

\* the sum of the emitted rewards of a set of plans
RECURSIVE EmittedSum(_)
EmittedSum(S) ==
    IF S = {} THEN 0
    ELSE LET n == CHOOSE m \in S : TRUE IN Emitted(n) + EmittedSum(S \ {n})

\* the plans whose emitted reward the call credits to an action: the inserted
\* plan and the plans newly on the frontier
Credited == NewlyOn \cup {ret.node}

\* C14: the rewards emitted for the inserted plan and for the plans newly on
\* the frontier are added to action_rewards[action] of the action that
\* produced each plan when that key exists; no other entry changes, no key is
\* added or removed, and the plans newly off (other than the inserted one) and
\* the plans that stay off contribute nothing.
C14_ActionRewards ==
    ValidCall =>
        /\ DOMAIN action_rewards = DOMAIN pre.action_rewards
        /\ \A k \in DOMAIN action_rewards :
               action_rewards[k] = pre.action_rewards[k]
                   + EmittedSum({n \in Credited : latest_action[n] = k})

\* one call credited to the action "a1" a plan newly on the frontier that is
\* not the inserted one, emitted a reward for a plan of the action "a2" the
\* sink has no key for, and emitted a non-zero reward for a plan it does not
\* credit
C14_Witness ==
    /\ ValidCall
    /\ \E n \in NewlyOn \ {ret.node} : latest_action[n] = "a1" /\ Emitted(n) # 0
    /\ action_rewards # pre.action_rewards
    /\ \E n \in Credited : latest_action[n] = "a2" /\ Emitted(n) # 0
    /\ \E n \in (DOMAIN ret.affected_nodes) \ Credited : Emitted(n) # 0

\* C15: after every add_plan_f1 call, the recorded credit of every valid plan
\* is positive (> 0) if the plan is on the frontier and negative (< 0) if it
\* is off the frontier.
C15_SignedCredit ==
    ret.op = "add_plan_f1" =>
        \A n \in ValidPlans :
            /\ n \in FrontierSet => node_distances[n] > 0
            /\ n \notin FrontierSet => node_distances[n] < 0

\* C16 as stated: after every add_plan_f1 call the recorded credit of every
\* valid plan equals the signed vertical distance from its accuracy to the
\* step function of the frontier as it is after the call (positive on the
\* frontier, negative off it).
C16_CreditIsCurrentDistance ==
    ret.op = "add_plan_f1" =>
        \A n \in ValidPlans :
            node_distances[n] = IF n \in FrontierSet
                                THEN DistanceTo(FrontierSet, n)
                                ELSE -DistanceTo(FrontierSet, n)

\* C16 as amended: after every add_plan_f1 call the recorded credit of every
\* valid plan off the frontier is -|accuracy - S_current(cost)|; a plan on the
\* frontier keeps the credit recorded when it joined, the distance to the
\* step function of the frontier it joined, which later calls leave alone.
C16_OffCreditIsCurrentDistance ==
    /\ ret.op = "add_plan_f1" =>
           \A n \in ValidPlans \ FrontierSet :
               node_distances[n] = -DistanceTo(FrontierSet, n)
    /\ ValidCall =>
           /\ \A n \in NewlyOn :
                  node_distances[n] = DistanceTo(OldFrontierSet, n)
           /\ \A n \in StaysOn :
                  node_distances[n] = pre.node_distances[n]

\* after a call one plan is off the frontier with a penalty that the call
\* changed, and a plan that stayed on the frontier holds a credit that is not
\* its distance to the current step function
C16_Witness ==
    /\ ValidCall
    /\ \E n \in StaysOff : node_distances[n] < 0 /\ Emitted(n) # 0
    /\ \E n \in StaysOn : node_distances[n] # DistanceTo(FrontierSet, n)

\* plan A (cost 10, accuracy 0.6) was ingested first and plan B (cost 5,
\* accuracy 0.5) has just been ingested, both with a supplied accuracy
C17_Scenario ==
    /\ ValidCall
    /\ plans = <<0, 1>>
    /\ ret.node = 1
    /\ plans_cost[0] = 10 /\ plans_accuracy[0] = 3600
    /\ plans_cost[1] = 5 /\ plans_accuracy[1] = 3000

\* C17 as stated: ingesting A (cost 10, accuracy 0.6) and then B (cost 5,
\* accuracy 0.5) leaves the frontier {A} unchanged (frontier_changed false, B
\* off the frontier) and B's emitted reward is -0.5.
C17_CheaperPlanDominated ==
    C17_Scenario =>
        /\ FrontierSet = {0}
        /\ ~ret.frontier_updated
        /\ ~on_frontier[1]
        /\ Emitted(1) = -3000

\* C17 as amended: ingesting A (cost 10, accuracy 0.6) and then B (cost 5,
\* accuracy 0.5) puts B on the frontier in front of A: the frontier is [B, A],
\* frontier_changed is true, B's emitted reward is +0.5 (its distance to the
\* old step function, which is 0 below A's cost) and nothing is emitted for A.
C17_CheaperPlanJoins ==
    C17_Scenario =>
        /\ frontier_plans = <<1, 0>>
        /\ ret.frontier_updated
        /\ on_frontier[1] /\ on_frontier[0]
        /\ Emitted(1) = 3000
        /\ node_distances[1] = 3000
        /\ DOMAIN ret.affected_nodes = {1}

\* B has been ingested after A and the call has emitted a reward for it
C17_Witness == C17_Scenario /\ 1 \in DOMAIN ret.affected_nodes

\* the last call handed a plan with a valid cost to either entry point
ValidIngest == ret.op \in {"add_plan", "add_plan_f1"} /\ cost[ret.node] # FAIL_COST

\* C18: no exception is raised in normal operation: for every plan with a
\* valid cost both add_plan_f1 and add_plan run to completion and return a map
\* with an entry for the inserted plan; with no valid plan the frontier and the
\* returned map are empty.
C18_NoException ==
    /\ ValidIngest =>
           ~ret.raised /\ ret.node \in DOMAIN ret.affected_nodes
    /\ (ret.op # "none" /\ ValidPlans = {}) =>
           frontier_plans = <<>> /\ ret.affected_nodes = EmptyMap

\* the last call handed a plan with a valid cost to add_plan, which estimated
\* its accuracy
EstimatedCall == ret.op = "add_plan" /\ cost[ret.node] # FAIL_COST

\* C20: the accuracy estimator returns exactly 0.5 whenever the frontier has
\* no member to compare against; the first plan ingested through add_plan has
\* the recorded accuracy 0.5, whether or not failed plans were ingested before.
C20_FirstPlanBaseline ==
    (EstimatedCall /\ pre.frontier_plans = <<>>) =>
        plans_accuracy[ret.node] = 3000

\* a failed plan left its -inf in plans_accuracy, so add_plan went through the
\* estimator for its first plan, found no frontier member and recorded 0.5
C20_Witness ==
    /\ EstimatedCall
    /\ pre.frontier_plans = <<>>
    /\ pre.plans = <<>>
    /\ \E n \in DOMAIN pre.plans_accuracy : pre.plans_accuracy[n] = NegInf
    /\ plans_accuracy[ret.node] = 3000

\* C19: if rendering the diagnostic plot fails during an add_plan_f1 call, the
\* call still returns the credit map and the frontier_changed value of a call
\* whose rendering succeeded (a map with an entry for the inserted plan, and
\* the flag that tells whether the frontier set changed), and the frontier
\* matches the flags of the plans as after a successful rendering.
C19_RenderingIsolated ==
    (ret.op = "add_plan_f1" /\ ret.render = "failed") =>
        /\ ~ret.raised
        /\ ret.node \in DOMAIN ret.affected_nodes
        /\ ret.frontier_updated <=> FrontierSet # OldFrontierSet
        /\ \A n \in ValidPlans : on_frontier[n] <=> n \in FrontierSet

\* the estimator has returned from a call on its own
Estimated == probe.fn = "estimate_accuracy_via_comparisons" /\ probe.phase = "returned"
\* the members whose comparison returned a score
Succeeded == {i \in 1 .. Len(probe.accs) : probe.outcomes[i][1]}

\* C21: for every set of frontier members, every assignment of known
\* accuracies and every outcome of the comparator, the value returned by
\* estimate_accuracy_via_comparisons lies in [0.10, 0.95]; all comparisons
\* scoring +3 against a reference accuracy of 0.90 yield 0.95, not 1.05.
C21_EstimateClamped ==
    Estimated =>
        /\ probe.result >= 600 /\ probe.result <= 5700
        /\ (/\ Len(probe.accs) >= 1
            /\ \A i \in 1 .. Len(probe.accs) :
                   probe.accs[i] = 5400 /\ probe.outcomes[i] = <<TRUE, 3>>)
           => probe.result = 5700

\* both comparisons scored +3 against 0.90: the mean 1.05 was clamped to 0.95
C21_Witness ==
    /\ Estimated
    /\ Len(probe.accs) = 2
    /\ \A i \in 1 .. 2 : probe.accs[i] = 5400 /\ probe.outcomes[i] = <<TRUE, 3>>
    /\ FinalAccuracy(probe.accuracy_estimates) = 6300
    /\ probe.result = 5700

\* a mean below 0.10 (0.1 - 0.15) was clamped to 0.10
C21_WitnessLow ==
    /\ Estimated
    /\ probe.accuracy_estimates # <<>>
    /\ FinalAccuracy(probe.accuracy_estimates) < 600
    /\ probe.result = 600

\* the adjustment the specification gives for a score, in units of 1/6000
SpecAdjustment(score) ==
    IF score = -3 THEN -900
    ELSE IF score = -1 THEN -300
    ELSE IF score = 1 THEN 300
    ELSE IF score = 3 THEN 900
    ELSE 0

\* the sum, over a set of members, of known accuracy + adjustment
RECURSIVE CandidateSum(_)
CandidateSum(S) ==
    IF S = {} THEN 0
    ELSE LET i == CHOOSE j \in S : TRUE IN
         probe.accs[i] + SpecAdjustment(probe.outcomes[i][2]) + CandidateSum(S \ {i})

\* C22: when at least one comparison succeeds, the estimate before clamping is
\* the arithmetic mean, over the members whose comparison succeeded, of
\* (known accuracy + adjustment), the scores -3, -1, 0, 1, 3 giving the
\* adjustments -0.15, -0.05, 0, +0.05, +0.15, with exactly one candidate
\* estimate per successful comparison.
C22_MeanOfCandidates ==
    (Estimated /\ Succeeded # {}) =>
        /\ Len(probe.accuracy_estimates) = Cardinality(Succeeded)
        /\ FinalAccuracy(probe.accuracy_estimates) * Cardinality(Succeeded)
               = CandidateSum(Succeeded)
        /\ probe.result = Max2(600, Min2(5700,
                              FinalAccuracy(probe.accuracy_estimates)))

\* two comparisons succeeded with different scores against different known
\* accuracies, and the mean of the two candidates was returned unclamped
C22_Witness ==
    /\ Estimated
    /\ Cardinality(Succeeded) = 2
    /\ probe.accs[1] # probe.accs[2]
    /\ probe.outcomes[1] = <<TRUE, -1>> /\ probe.outcomes[2] = <<TRUE, 3>>
    /\ probe.result = FinalAccuracy(probe.accuracy_estimates)
    /\ probe.result * 2 = probe.accs[1] + probe.accs[2] + 600

\* the estimator applied to the members whose comparison returned, and to them
\* only
SucceededSeq == SelectSeq([i \in 1 .. Len(probe.accs) |-> i],
                          LAMBDA i : probe.outcomes[i][1])
EstimateOfSucceeded ==
    IF SucceededSeq = <<>> THEN 3000
    ELSE Max2(600, Min2(5700, CandidateSum(Succeeded) \div Cardinality(Succeeded)))

\* C23 as stated: a comparator failure on one member does not abort the
\* estimation: the failed comparison is skipped and only the other members
\* enter the mean; the estimator returns the baseline 0.5 if and only if every
\* comparison failed (or there was no member).
C23_BaselineIffAllFailed ==
    Estimated =>
        /\ Len(probe.accuracy_estimates) = Cardinality(Succeeded)
        /\ probe.result = EstimateOfSucceeded
        /\ probe.result = 3000 <=> Succeeded = {}

\* C23 as amended: a comparator failure on one member does not abort the
\* estimation: the failed comparison is skipped and only the other members
\* enter the mean; the estimator returns the baseline 0.5 whenever every
\* comparison failed (or there was no member), and otherwise the clamped mean
\* of the successful comparisons, which can be 0.5 as well.
C23_FailedComparisonSkipped ==
    Estimated =>
        /\ Len(probe.accuracy_estimates) = Cardinality(Succeeded)
        /\ probe.result = EstimateOfSucceeded
        /\ Succeeded = {} => probe.result = 3000

\* the comparison with the first member failed and the one with the second
\* returned +3 against 0.5: the estimate is 0.65, from the second member alone
C23_Witness ==
    /\ Estimated
    /\ Len(probe.accs) = 2
    /\ probe.outcomes[1] = CompareRaises
    /\ probe.accs[1] = 5400
    /\ probe.outcomes[2] = <<TRUE, 3>> /\ probe.accs[2] = 3000
    /\ probe.result = 3900

\* every comparison failed and the baseline was returned
C23_WitnessAllFailed ==
    /\ Estimated
    /\ Len(probe.accs) = 2
    /\ Succeeded = {}
    /\ probe.result = 3000

\* C24: is_fully_explored(node, multiplier) returns true if and only if the
\* node's number of children is >= max(2, 1 + floor(sqrt(visits) * multiplier)),
\* that is, with multiplier = p / d, if and only if it has at least 2 children
\* and children > sqrt(visits) * p / d; a node with fewer than 2 children is
\* never fully explored.
C24_FullyExplored ==
    (probe.fn = "is_fully_explored" /\ probe.phase = "returned") =>
        /\ probe.result <=>
               /\ probe.children >= 2
               /\ Square(probe.children * probe.multiplier[2])
                      > probe.visits * Square(probe.multiplier[1])
        /\ probe.children < 2 => ~probe.result

\* with 9 visits and the default multiplier 4 children are allowed, and the
\* node has 4
C24_Witness ==
    /\ probe.fn = "is_fully_explored" /\ probe.phase = "returned"
    /\ probe.visits = 9 /\ probe.multiplier = <<1, 1>>
    /\ probe.children = 4
    /\ probe.result

\* with 9 visits and the default multiplier a node with 3 children is not
\* fully explored, and no node with 1 child is
C24_WitnessNot ==
    /\ probe.fn = "is_fully_explored" /\ probe.phase = "returned"
    /\ probe.visits = 9 /\ probe.multiplier = <<1, 1>>
    /\ probe.children = 3
    /\ ~probe.result

\* C25: should_continue_search returns false if and only if iteration >=
\* max_iterations, or a time budget is configured and the elapsed time is >=
\* that budget; with no budget it depends on the iteration count only; it
\* changes no state of the engine.
C25_ContinueSearch ==
    (probe.fn = "should_continue_search" /\ probe.phase = "returned") =>
        /\ ~probe.result <=>
               \/ probe.iteration >= probe.max_iterations
               \/ /\ Len(probe.max_time) = 1
                  /\ probe.now - probe.start_time >= probe.max_time[1]
        /\ probe.max_time = <<>> =>
               (probe.result <=> probe.iteration < probe.max_iterations)
        /\ Snapshot = pre /\ ret = NoCall

\* the iteration limit is not reached and the search stops on the time budget
C25_Witness ==
    /\ probe.fn = "should_continue_search" /\ probe.phase = "returned"
    /\ probe.iteration < probe.max_iterations
    /\ probe.max_time = <<2>>
    /\ probe.now - probe.start_time = 2
    /\ ~probe.result

\* the clock is past any budget, no budget is configured and the search goes on
C25_WitnessNoBudget ==
    /\ probe.fn = "should_continue_search" /\ probe.phase = "returned"
    /\ probe.iteration + 1 = probe.max_iterations
    /\ probe.max_time = <<>>
    /\ probe.now = MaxClock
    /\ probe.result

\* C26: calculate_ucb1 returns positive infinity for every node with zero
\* visits, for every value of parent_visits (0 included) and every exploration
\* constant; a visited node never gets more than a finite score, so an
\* unvisited node scores at least as high as any visited sibling.
C26_UnvisitedIsInfinite ==
    (probe.fn = "calculate_ucb1" /\ probe.phase = "returned") =>
        /\ probe.visits = 0 => probe.result.kind = "inf"
        /\ probe.visits # 0 => probe.result.kind # "inf"

\* a node without visits under a parent without visits scores infinity
C26_Witness ==
    /\ probe.fn = "calculate_ucb1" /\ probe.phase = "returned"
    /\ probe.visits = 0 /\ probe.parent_visits = 0
    /\ probe.exploration_constant # 0
    /\ probe.result.kind = "inf"

\* the position of a plan in the plan set
PlanIndex(n) == CHOOSE i \in 1 .. Len(plans) : plans[i] = n
\* m is scanned before n: it is cheaper, or as cheap and ingested earlier
ScannedBefore(m, n) ==
    \/ plans_cost[m] < plans_cost[n]
    \/ plans_cost[m] = plans_cost[n] /\ PlanIndex(m) < PlanIndex(n)
\* the frontier of the recorded plan set: the valid plans more accurate than
\* every plan scanned before them
FrontierOfPlans ==
    {n \in ValidPlans :
        \A m \in ValidPlans \ {n} :
            ScannedBefore(m, n) => plans_accuracy[m] < plans_accuracy[n]}
\* no call of add_plan_f1 is running
Quiescent == \A t \in Threads : calls.th[t].pc = "idle"

\* C27: concurrent calls of add_plan_f1 on one engine are unsafe without
\* mutual exclusion (a final state is reachable in which frontier_plans is not
\* the frontier of the recorded plan set, see C27_Witness); with mutual
\* exclusion around each whole call, whenever no call is running
\* frontier_plans is the frontier of the recorded plan set.
C27_SerialisedCallsKeepFrontier ==
    (calls.mode = "threads" /\ calls.locking /\ Quiescent) =>
        FrontierSet = FrontierOfPlans

\* without mutual exclusion two calls have interleaved and both have returned:
\* the call that scanned first assigned its frontier last, and frontier_plans
\* is not the frontier of the recorded plan set
C27_Witness ==
    /\ calls.mode = "threads"
    /\ ~calls.locking
    /\ Quiescent
    /\ Len(plans) = 2
    /\ FrontierSet # FrontierOfPlans

\* the orders in which the recorded plans can have been ingested
IngestionOrders ==
    {o \in [1 .. Len(plans) -> PlanSet] : \A i, j \in 1 .. Len(plans) : o[i] = o[j] => i = j}
\* the (cost, accuracy) points of a set of plans
PointsOf(S) == {<<plans_cost[n], plans_accuracy[n]>> : n \in S}
\* the frontier the engine holds after ingesting the recorded plans in the
\* order o: every call recomputes it from self.plans, which is in that order
FrontierAfter(o) ==
    SeqSet(FrontierScan(SortNodes(ValidNodes(o, cost), plans_cost),
                        plans_accuracy, NegInf))

\* C28: the plans on the frontier depend only on the set of (cost, accuracy)
\* plans ingested so far, not on the order in which they were ingested: every
\* ingestion order of the recorded plans ends with the same frontier points.
C28_OrderIndependent ==
    ret.op = "add_plan_f1" =>
        \A o \in IngestionOrders : PointsOf(FrontierAfter(o)) = PointsOf(FrontierSet)

\* C29: frontier membership is lost permanently: in a sequence of add_plan_f1
\* calls, a plan that is off the frontier after a call is off the frontier
\* after the next call, hence after every later call.
C29_OffStaysOff ==
    ret.op = "add_plan_f1" =>
        \A n \in SeqSet(pre.plans) :
            n \notin OldFrontierSet => n \notin FrontierSet

\* a plan was off the frontier before a call that changed the frontier, and
\* is still off it
C29_Witness ==
    /\ ValidCall
    /\ ret.frontier_updated
    /\ NewlyOff # {}
    /\ \E n \in SeqSet(pre.plans) :
           /\ n \notin OldFrontierSet /\ n \notin FrontierSet
           /\ plans_cost[n] > plans_cost[ret.node]

\* C30: in every add_plan_f1 call with a valid plan the only plan that can be
\* newly on the frontier is the inserted plan, and frontier_changed is true if
\* and only if the inserted plan is on the new frontier; hence a call changes
\* at most one action_rewards entry.
C30_OnlyInsertedJoins ==
    ValidCall =>
        /\ NewlyOn \subseteq {ret.node}
        /\ ret.frontier_updated <=> ret.node \in FrontierSet
        /\ Cardinality({k \in DOMAIN action_rewards :
                           action_rewards[k] # pre.action_rewards[k]}) <= 1

\* the valid plans that have never been on the frontier
NeverOn == ValidPlans \ ledger.ever_on

\* C31: for a plan that has never been on the frontier, after any sequence of
\* add_plan_f1 calls the sum of all the values emitted for it in the returned
\* maps equals its recorded credit: an unchanged penalty is not counted twice.
C31_EmittedSumIsCredit ==
    ledger.mode = "on" =>
        \A n \in NeverOn : MapGet(ledger.emitted, n, 0) = node_distances[n]

\* a plan that was never on the frontier keeps its penalty in the last call,
\* which emitted a delta of 0 for it
C31_Witness ==
    /\ ledger.mode = "on"
    /\ ValidCall
    /\ \E n \in NeverOn \cap StaysOff :
           /\ Emitted(n) = 0
           /\ node_distances[n] < 0
           /\ ledger.emitted[n] = node_distances[n]

\* a plan that was never on the frontier has been emitted two non-zero values
C31_WitnessTwice ==
    /\ ledger.mode = "on"
    /\ ValidCall
    /\ \E n \in NeverOn \cap StaysOff :
           Emitted(n) # 0 /\ Emitted(n) # node_distances[n]

\* a ReadNextDocTool is in use
Reading == probe.fn = "ReadNextDocTool"

\* C32: for any sequence of read_next_doc and read_next_docs(count) calls on a
\* ReadNextDocTool without reset, 0 <= current_index <= len(input_data); the
\* documents returned, concatenated in call order, are input_data[0 :
\* current_index]; read_next_docs returns min(count, remaining) documents;
\* has_more_docs is true iff get_remaining_count > 0; and once the tool is
\* exhausted read_next_doc returns None and read_next_docs returns [].
C32_ReaderCursor ==
    Reading =>
        LET tool == probe.tool
            last == probe.last
        IN
        /\ 0 <= tool.current_index /\ tool.current_index <= Len(tool.input_data)
        /\ probe.returned = SubSeq(tool.input_data, 1, tool.current_index)
        /\ has_more_docs(tool) <=> get_remaining_count(tool) > 0
        /\ last.op = "read_next_docs" =>
               Len(last.docs) = Min2(last.count,
                                     Len(tool.input_data) - last.before.current_index)
        /\ last.op = "read_next_doc" =>
               /\ last.none <=> last.before.current_index = Len(tool.input_data)
               /\ ~last.none => Len(last.docs) = 1
        /\ (last.op = "read_next_docs"
               /\ last.before.current_index = Len(tool.input_data)) =>
               last.docs = <<>> /\ ~last.none

\* read_next_docs(3) with two documents left has returned those two, after a
\* read_next_doc that returned the first
C32_Witness ==
    /\ Reading
    /\ Len(probe.tool.input_data) = 3
    /\ probe.last.op = "read_next_docs"
    /\ probe.last.count = 3
    /\ probe.last.before.current_index = 1
    /\ Len(probe.last.docs) = 2
    /\ probe.tool.current_index = 3
    /\ ~has_more_docs(probe.tool)

\* the tool is exhausted and read_next_doc has returned None
C32_WitnessExhausted ==
    /\ Reading
    /\ Len(probe.tool.input_data) = 2
    /\ probe.last.op = "read_next_doc"
    /\ probe.last.none
    /\ probe.tool.current_index = 2

\* the final schema loop of run_agentic_loop is running or is over
SchemaLoop == probe.fn = "run_agentic_loop"
\* the responses that did not pass
FailedResponses ==
    {i \in 1 .. Len(probe.responses) :
        ~(/\ probe.responses[i].parses
          /\ (probe.has_validation => probe.responses[i].validates))}
\* the messages the loop has appended to the history
Appended ==
    SubSeq(probe.message_history, Len(probe.initial_history) + 1,
           Len(probe.message_history))
\* the assistant response and the user error message of every failed attempt
\* up to k
RECURSIVE RetryMessages(_)
RetryMessages(k) ==
    IF k = 0 THEN <<>>
    ELSE RetryMessages(k - 1)
            \o <<[role |-> "assistant", attempt |-> k], [role |-> "user", attempt |-> k]>>

\* C33: the final schema generation calls the model at most
\* MAX_DIRECTIVE_INSTANTIATION_ATTEMPTS times; it returns at the first
\* response that parses and passes validation_func, without a further call;
\* after every failed attempt except the last it appends the failed assistant
\* response and a user error message to the history; it raises an exception
\* if and only if every attempt fails.
C33_SchemaRetries ==
    SchemaLoop =>
        /\ probe.completions <= probe.max_attempts
        /\ probe.status = "returned" =>
               /\ FailedResponses = 1 .. (Len(probe.responses) - 1)
               /\ probe.completions = Len(probe.responses)
               /\ Appended = RetryMessages(Len(probe.responses) - 1)
                                \o <<[role |-> "assistant",
                                      attempt |-> Len(probe.responses)]>>
        /\ probe.status = "raised" =>
               /\ FailedResponses = 1 .. Len(probe.responses)
               /\ Appended = RetryMessages(
                                 Min2(Len(probe.responses), probe.max_attempts - 1))
        /\ (probe.status = "running" /\ probe.attempt = probe.max_attempts) =>
               /\ FailedResponses = 1 .. probe.max_attempts
               /\ Appended = RetryMessages(probe.max_attempts - 1)

\* with three attempts allowed and a validation_func, two responses failed
\* (one did not parse, one was rejected by validation_func) and the third
\* passed: the call returned after three completions
C33_Witness ==
    /\ SchemaLoop
    /\ probe.status = "returned"
    /\ probe.max_attempts = 3 /\ probe.has_validation
    /\ probe.completions = 3
    /\ ~probe.responses[1].parses
    /\ probe.responses[2].parses /\ ~probe.responses[2].validates
    /\ Len(Appended) = 5

\* every one of the three attempts failed and the call raised; the history
\* holds the messages of the first two
C33_WitnessRaised ==
    /\ SchemaLoop
    /\ probe.status = "raised"
    /\ probe.max_attempts = 3
    /\ Len(probe.responses) = 3
    /\ Len(Appended) = 4

\* trim_history has returned
Trimmed == probe.fn = "trim_history" /\ probe.phase = "returned"

\* C34: after trim_history returns, the estimated token count of the history
\* (count_tokens) does not exceed MAX_CONTEXT_TOKENS, for every input history.
C34_WithinBudget ==
    Trimmed => count_tokens(probe.result) <= MAX_CONTEXT_TOKENS

\* the places, in the history handed in, of the messages of a history
Places(h) == {h[i].pos : i \in 1 .. Len(h)}
\* the place of the first message of a role, if there is one
FirstWithRole(h, role) ==
    {i \in 1 .. Len(h) : h[i].role = role /\ \A j \in 1 .. (i - 1) : h[j].role # role}

Truncated == probe.fn = "truncate_message_content" /\ probe.phase = "returned"

\* C36: the list returned by truncate_message_content is a subsequence of the
\* input messages in their original relative order, which contains the
\* leading system message (when the first message has the role system) and
\* the latest message.
C36_OrderedSubsequence ==
    Truncated =>
        LET messages == probe.messages
            out == probe.result
        IN
        /\ \A i \in 1 .. Len(out) : out[i] = messages[out[i].pos]
        /\ \A i, j \in 1 .. Len(out) : i < j => out[i].pos < out[j].pos
        /\ messages # <<>> =>
               /\ messages[1].role = "system" => out[1] = messages[1]
               /\ out[Len(out)] = messages[Len(messages)]

====
